---- MODULE Spec2Model ----
(***************************************************************************)
(* RustedBytes Game of Life (src/src/main.rs): the OpenCL kernel           *)
(* game_of_life, the frame loop of main with its input handling, the rate  *)
(* adjustment on the usize current_fps, the kernel dispatch and the        *)
(* rendering of the new grid into the frame buffer.                        *)
(***************************************************************************)
EXTENDS Integers, FiniteSets, Sequences, TLC

(* ------------------------------ bounds -------------------------------- *)

\* Grid size of the frame loop (480 x 360 in the source, scaled down).
WIDTH == 3
HEIGHT == 3
\* Width in bits of usize (64 on the usual targets, scaled down).
USIZE_BITS == 16
\* Number of iterations of the frame loop that are explored.
MaxTicks == 3
\* Number of keys and mouse buttons the window reports held at once.
MaxHeld == 2
\* Largest number of cells (width * height) explored for the kernel alone.
MaxCells == 9

(* ------------------------- program constants -------------------------- *)

ALIVE_COLOR == 6973091
DEAD_COLOR == 14538936

(* ------------------------------- state -------------------------------- *)

VARIABLES
    pc,               \* position of the control thread in main
    current_fps,      \* let mut current_fps
    target_fps,       \* the window's target fps (set_target_fps)
    title,            \* the window's title (set_title)
    grid,             \* host Vec<u8> grid
    buffer_grid,      \* device buffer read by the kernel
    buffer_new_grid,  \* device buffer written by the kernel
    new_grid,         \* host Vec<u8> new_grid of the current iteration
    frame_buffer,     \* host Vec<u32> frame_buffer
    shown,            \* the pixels last handed to the window
    is_open,          \* window.is_open()
    keys,             \* keys the window reports down
    mouse_down,       \* mouse buttons the window reports down
    mouse_pos,        \* window.get_mouse_pos(Clamp)
    width,            \* kernel argument width
    height,           \* kernel argument height
    pending,          \* work-items of the dispatch in flight not yet executed
    generation        \* completed iterations of the frame loop

vars == <<pc, current_fps, target_fps, title, grid, buffer_grid,
          buffer_new_grid, new_grid, frame_buffer, shown, is_open, keys,
          mouse_down, mouse_pos, width, height, pending, generation>>

(* ------------------------------ usize --------------------------------- *)

UsizeMod == 2 ^ USIZE_BITS
UsizeMax == UsizeMod - 1

\* a + b on usize when overflow checks are off
WrappingAdd(a, b) == (a + b) % UsizeMod
\* a - b on usize when overflow checks are off
WrappingSub(a, b) == (a - b) % UsizeMod
AddOverflows(a, b) == a + b > UsizeMax
SubOverflows(a, b) == a - b < 0

Min(a, b) == IF a < b THEN a ELSE b
Max(a, b) == IF a > b THEN a ELSE b

\* f32 as usize: saturating, negative values become 0
AsUsize(f) == IF f < 0 THEN 0 ELSE Min(f, UsizeMax)

get_title(fps) == <<"RustedBytes Game of Life (", fps, "fps)">>

(* ------------------------------ grids --------------------------------- *)

Cells(w, h) == 0 .. (w * h - 1)
AllGrids(w, h) == [Cells(w, h) -> {0, 1}]
GridOf(S, w, h) == [i \in Cells(w, h) |-> IF i \in S THEN 1 ELSE 0]
NoGrid == [i \in {} |-> 0]

\* Outcomes of the random seeding that are explored: no cell, the middle
\* row, three cells around the origin.
SeedGridsOf(w, h) ==
    { GridOf({}, w, h),
      GridOf({i \in Cells(w, h) : i \div w = 1}, w, h),
      GridOf({0, 1, w}, w, h) }
SeedGrids == SeedGridsOf(WIDTH, HEIGHT)

\* Contents of the device buffer new_grid before the first dispatch.
StaleBuffers(w, h) == { [i \in Cells(w, h) |-> b] : b \in {0, 255} }

(* --------------------------- OpenCL kernel ---------------------------- *)

\* Mutant of NeighborLoop: neighbours across the border are not counted.
RECURSIVE NeighborLoopNoWrap(_, _, _, _, _, _)
NeighborLoopNoWrap(g, x, y, w, h, k) ==
    IF k > 8 THEN 0
    ELSE LET dy == (k \div 3) - 1
             dx == (k % 3) - 1
             nx == x + dx
             ny == y + dy
             inside == nx >= 0 /\ nx < w /\ ny >= 0 /\ ny < h
         IN  (IF (dx = 0 /\ dy = 0) \/ ~inside THEN 0 ELSE g[ny * w + nx])
             + NeighborLoopNoWrap(g, x, y, w, h, k + 1)

\* The two nested loops over dy, dx: k = 0..8 enumerates them in order.
RECURSIVE NeighborLoop(_, _, _, _, _, _)
NeighborLoop(g, x, y, w, h, k) ==
    IF k > 8 THEN 0
    ELSE LET dy == (k \div 3) - 1
             dx == (k % 3) - 1
             nx == (x + dx + w) % w
             ny == (y + dy + h) % h
             n_idx == ny * w + nx
         IN  (IF dx = 0 /\ dy = 0 THEN 0 ELSE g[n_idx])
             + NeighborLoop(g, x, y, w, h, k + 1)

\* Mutant of work_item: an alive cell survives with 3 neighbours only.
work_item_strict(g, x, y, w, h) ==
    IF NeighborLoop(g, x, y, w, h, 0) = 3 THEN 1 ELSE 0

\* The value work-item (x, y) stores at new_grid[y * width + x].
work_item(g, x, y, w, h) ==
    LET idx == y * w + x
        alive_neighbors == NeighborLoop(g, x, y, w, h, 0)
    IN  IF g[idx] = 1
        THEN (IF alive_neighbors = 2 \/ alive_neighbors = 3 THEN 1 ELSE 0)
        ELSE (IF alive_neighbors = 3 THEN 1 ELSE 0)

\* All work-items of one dispatch over the global range (width, height).
game_of_life(g, w, h) ==
    [idx \in Cells(w, h) |-> work_item(g, idx % w, idx \div w, w, h)]

GlobalIds(w, h) == (0 .. (w - 1)) \X (0 .. (h - 1))

\* Kernel arguments (width, height) explored for the kernel alone.
KernelDims ==
    { d \in (1 .. MaxCells) \X (1 .. MaxCells) : d[1] * d[2] <= MaxCells }

(* ------------------------------ render -------------------------------- *)

\* Mutant of RenderFrame: only alive cells are drawn, over the old frame.
RenderAliveOnly(fb, ng) ==
    [i \in DOMAIN fb |->
        IF i \in DOMAIN ng /\ ng[i] = 1 THEN ALIVE_COLOR ELSE fb[i]]

\* for (i, &cell) in new_grid.iter().enumerate() { frame_buffer[i] = ... }
RenderFrame(fb, ng) ==
    [i \in DOMAIN fb |->
        IF i \in DOMAIN ng
        THEN (IF ng[i] = 1 THEN ALIVE_COLOR ELSE DEAD_COLOR)
        ELSE fb[i]]

(* --------------------------- window inputs ---------------------------- *)

Keys == {"Escape", "Space", "Up", "Down"}
Buttons == {"Left", "Right"}
None == <<>>
\* Mouse positions the window reports (f32 pairs with integral values).
CursorSamples == { None, <<-1, HEIGHT - 1>>, <<WIDTH, 0>> }
HeldSamples ==
    { s \in (SUBSET Keys) \X (SUBSET Buttons) :
        Cardinality(s[1]) + Cardinality(s[2]) <= MaxHeld }
\* What one poll of the window can report: <<is_open, keys, buttons, position>>;
\* a closed window is reported once, with nothing held.
InputSamples ==
    { <<TRUE, s[1], s[2], p>> : s \in HeldSamples, p \in CursorSamples }
    \cup { <<FALSE, {}, {}, None>> }

\* window.is_key_down(Key::Space) || window.get_mouse_down(MouseButton::Right)
ResetHeld == "Space" \in keys \/ "Right" \in mouse_down
\* window.get_mouse_down(MouseButton::Left)
PaintHeld == "Left" \in mouse_down
\* Some((mouse_x, mouse_y)) with x < WIDTH && y < HEIGHT after the casts
CursorInBounds ==
    /\ mouse_pos # None
    /\ AsUsize(mouse_pos[1]) < WIDTH
    /\ AsUsize(mouse_pos[2]) < HEIGHT
\* y * WIDTH + x
CursorIdx == AsUsize(mouse_pos[2]) * WIDTH + AsUsize(mouse_pos[1])

\* Initial fps values given on the command line that are explored.
InitFps == {3, 60, 248, UsizeMax - 2}

(* ------------------------------ Init ---------------------------------- *)

Init ==
    /\ pc = "loop"
    /\ current_fps \in InitFps
    /\ target_fps = current_fps
    /\ title = get_title(current_fps)
    /\ grid \in SeedGrids
    /\ buffer_grid = grid
    /\ buffer_new_grid \in StaleBuffers(WIDTH, HEIGHT)
    /\ new_grid = NoGrid
    /\ frame_buffer = [i \in Cells(WIDTH, HEIGHT) |-> 0]
    /\ shown = NoGrid
    /\ is_open = TRUE
    /\ keys = {}
    /\ mouse_down = {}
    /\ mouse_pos = <<0, 0>>
    /\ width = WIDTH
    /\ height = HEIGHT
    /\ pending = {}
    /\ generation = 0

(* --------------------------- frame loop ------------------------------- *)

gridVars == <<grid, buffer_grid, buffer_new_grid, new_grid, frame_buffer, shown>>
rateVars == <<current_fps, target_fps, title>>
inputVars == <<is_open, keys, mouse_down, mouse_pos>>
fixedVars == <<width, height, pending>>

\* while window.is_open() && !window.is_key_down(Key::Escape)
LoopCheck ==
    /\ pc = "loop"
    /\ IF is_open /\ "Escape" \notin keys
       THEN generation < MaxTicks /\ pc' = "reset"
       ELSE pc' = "terminated"
    /\ UNCHANGED <<gridVars, rateVars, inputVars, fixedVars, generation>>

\* Space or the right button: reseed grid and write it to buffer_grid
Reset ==
    /\ pc = "reset"
    /\ pc' = "up"
    /\ IF ResetHeld
       THEN \E g \in SeedGrids : grid' = g /\ buffer_grid' = g
       ELSE UNCHANGED <<grid, buffer_grid>>
    /\ UNCHANGED <<buffer_new_grid, new_grid, frame_buffer, shown>>
    /\ UNCHANGED <<rateVars, inputVars, fixedVars, generation>>

\* Mutant of RateUp: the rule is skipped in a tick where reset is held.
RateUpUnlessReset ==
    /\ pc = "up"
    /\ IF "Up" \in keys /\ ~ResetHeld
       THEN \/ /\ AddOverflows(current_fps, 5)
               /\ pc' = "panicked"
               /\ UNCHANGED rateVars
            \/ /\ current_fps' = Min(WrappingAdd(current_fps, 5), 250)
               /\ target_fps' = current_fps'
               /\ title' = get_title(current_fps')
               /\ pc' = "down"
       ELSE pc' = "down" /\ UNCHANGED rateVars
    /\ UNCHANGED <<gridVars, inputVars, fixedVars, generation>>

\* Up: current_fps = (current_fps + 5).min(250)
RateUp ==
    /\ pc = "up"
    /\ IF "Up" \in keys
       THEN \/ /\ AddOverflows(current_fps, 5)      \* overflow checks on
               /\ pc' = "panicked"
               /\ UNCHANGED rateVars
            \/ /\ current_fps' = Min(WrappingAdd(current_fps, 5), 250)
               /\ target_fps' = current_fps'
               /\ title' = get_title(current_fps')
               /\ pc' = "down"
       ELSE pc' = "down" /\ UNCHANGED rateVars
    /\ UNCHANGED <<gridVars, inputVars, fixedVars, generation>>

\* Down: current_fps = (current_fps - 5).max(5)
RateDown ==
    /\ pc = "down"
    /\ IF "Down" \in keys
       THEN \/ /\ SubOverflows(current_fps, 5)      \* overflow checks on
               /\ pc' = "panicked"
               /\ UNCHANGED rateVars
            \/ /\ current_fps' = Max(WrappingSub(current_fps, 5), 5)
               /\ target_fps' = current_fps'
               /\ title' = get_title(current_fps')
               /\ pc' = "paint"
       ELSE pc' = "paint" /\ UNCHANGED rateVars
    /\ UNCHANGED <<gridVars, inputVars, fixedVars, generation>>

\* Mutant of Paint: the host grid is edited without reading buffer_grid.
PaintStale ==
    /\ pc = "paint"
    /\ pc' = "kernel"
    /\ IF mouse_pos # None /\ PaintHeld /\ CursorInBounds
       THEN /\ grid' = [grid EXCEPT ![CursorIdx] = 1]
            /\ buffer_grid' = grid'
       ELSE UNCHANGED <<grid, buffer_grid>>
    /\ UNCHANGED <<buffer_new_grid, new_grid, frame_buffer, shown>>
    /\ UNCHANGED <<rateVars, inputVars, fixedVars, generation>>

\* Left button over a cell: read buffer_grid, set the cell, write it back
Paint ==
    /\ pc = "paint"
    /\ pc' = "kernel"
    /\ IF mouse_pos # None /\ PaintHeld /\ CursorInBounds
       THEN /\ grid' = [buffer_grid EXCEPT ![CursorIdx] = 1]
            /\ buffer_grid' = grid'
       ELSE UNCHANGED <<grid, buffer_grid>>
    /\ UNCHANGED <<buffer_new_grid, new_grid, frame_buffer, shown>>
    /\ UNCHANGED <<rateVars, inputVars, fixedVars, generation>>

\* kernel.enq() as the control thread sees it once the queue has run it
Kernel ==
    /\ pc = "kernel"
    /\ pc' = "read"
    /\ buffer_new_grid' = game_of_life(buffer_grid, width, height)
    /\ UNCHANGED <<grid, buffer_grid, new_grid, frame_buffer, shown>>
    /\ UNCHANGED <<rateVars, inputVars, fixedVars, generation>>

\* buffer_new_grid.read(&mut new_grid): blocks until the queue is empty
ReadBack ==
    /\ pc = "read"
    /\ pending = {}
    /\ pc' = "render"
    /\ new_grid' = buffer_new_grid
    /\ UNCHANGED <<grid, buffer_grid, buffer_new_grid, frame_buffer, shown>>
    /\ UNCHANGED <<rateVars, inputVars, fixedVars, generation>>

\* the loop that fills frame_buffer from new_grid
Render ==
    /\ pc = "render"
    /\ pc' = "present"
    /\ frame_buffer' = RenderFrame(frame_buffer, new_grid)
    /\ UNCHANGED <<grid, buffer_grid, buffer_new_grid, new_grid, shown>>
    /\ UNCHANGED <<rateVars, inputVars, fixedVars, generation>>

\* window.update_with_buffer: shows the frame and polls the inputs
Present ==
    /\ pc = "present"
    /\ pc' = "swap"
    /\ shown' = frame_buffer
    /\ \E s \in InputSamples :
          /\ is_open' = s[1]
          /\ keys' = s[2]
          /\ mouse_down' = s[3]
          /\ mouse_pos' = s[4]
    /\ UNCHANGED <<grid, buffer_grid, buffer_new_grid, new_grid, frame_buffer>>
    /\ UNCHANGED <<rateVars, fixedVars, generation>>

\* Mutant of Swap: the new grid is not written to buffer_grid.
SwapNoWrite ==
    /\ pc = "swap"
    /\ pc' = "loop"
    /\ new_grid' = NoGrid
    /\ generation' = generation + 1
    /\ UNCHANGED <<grid, buffer_grid, buffer_new_grid, frame_buffer, shown>>
    /\ UNCHANGED <<rateVars, inputVars, fixedVars>>

\* buffer_grid.write(&new_grid), end of the loop body
Swap ==
    /\ pc = "swap"
    /\ pc' = "loop"
    /\ buffer_grid' = new_grid
    /\ new_grid' = NoGrid
    /\ generation' = generation + 1
    /\ UNCHANGED <<grid, buffer_new_grid, frame_buffer, shown>>
    /\ UNCHANGED <<rateVars, inputVars, fixedVars>>

Next ==
    \/ LoopCheck
    \/ Reset
    \/ RateUp
    \/ RateDown
    \/ Paint
    \/ Kernel
    \/ ReadBack
    \/ Render
    \/ Present
    \/ Swap

Spec == Init /\ [][Next]_vars

(* ------------------- the kernel alone, on every grid ------------------ *)

\* One dispatch and read-back of the kernel built with arguments
\* (width, height), on any grid of that size.
InitKernel ==
    /\ pc = "kernel"
    /\ \E d \in KernelDims : width = d[1] /\ height = d[2]
    /\ buffer_grid \in AllGrids(width, height)
    /\ grid = buffer_grid
    /\ buffer_new_grid \in StaleBuffers(width, height)
    /\ new_grid = NoGrid
    /\ frame_buffer = [i \in Cells(width, height) |-> 0]
    /\ shown = NoGrid
    /\ current_fps = 60
    /\ target_fps = current_fps
    /\ title = get_title(current_fps)
    /\ is_open = TRUE
    /\ keys = {}
    /\ mouse_down = {}
    /\ mouse_pos = <<0, 0>>
    /\ pending = {}
    /\ generation = 0

NextKernel ==
    \/ Kernel
    \/ ReadBack
    \/ Render

SpecKernel == InitKernel /\ [][NextKernel]_vars

(* ---------------- one dispatch, work-item by work-item ---------------- *)

\* kernel.enq(): one work-item per cell of the global range is queued
Enqueue ==
    /\ pc = "kernel"
    /\ pc' = "running"
    /\ pending' = GlobalIds(width, height)
    /\ UNCHANGED <<gridVars, rateVars, inputVars, width, height, generation>>

\* Mutant of WorkItem: the result is stored in grid, the buffer being read.
WorkItemInPlace(id) ==
    /\ pc = "running"
    /\ id \in pending
    /\ pending' = pending \ {id}
    /\ buffer_grid' =
          [buffer_grid EXCEPT ![id[2] * width + id[1]] =
              work_item(buffer_grid, id[1], id[2], width, height)]
    /\ UNCHANGED <<pc, grid, buffer_new_grid, new_grid, frame_buffer, shown>>
    /\ UNCHANGED <<rateVars, inputVars, width, height, generation>>

\* work-item id = (x, y) runs: new_grid[idx] = ...
WorkItem(id) ==
    /\ pc = "running"
    /\ id \in pending
    /\ pending' = pending \ {id}
    /\ buffer_new_grid' =
          [buffer_new_grid EXCEPT ![id[2] * width + id[1]] =
              work_item(buffer_grid, id[1], id[2], width, height)]
    /\ UNCHANGED <<pc, grid, buffer_grid, new_grid, frame_buffer, shown>>
    /\ UNCHANGED <<rateVars, inputVars, width, height, generation>>

\* the in-order queue reaches the read enqueued behind the kernel
Finish ==
    /\ pc = "running"
    /\ pending = {}
    /\ pc' = "read"
    /\ UNCHANGED <<gridVars, rateVars, inputVars, fixedVars, generation>>

InitDispatch ==
    /\ pc = "kernel"
    /\ \E d \in KernelDims : width = d[1] /\ height = d[2]
    /\ buffer_grid \in SeedGridsOf(width, height)
    /\ grid = buffer_grid
    /\ buffer_new_grid \in StaleBuffers(width, height)
    /\ new_grid = NoGrid
    /\ frame_buffer = [i \in Cells(width, height) |-> 0]
    /\ shown = NoGrid
    /\ current_fps = 60
    /\ target_fps = current_fps
    /\ title = get_title(current_fps)
    /\ is_open = TRUE
    /\ keys = {}
    /\ mouse_down = {}
    /\ mouse_pos = <<0, 0>>
    /\ pending = {}
    /\ generation = 0

NextDispatch ==
    \/ Enqueue
    \/ \E id \in GlobalIds(width, height) : WorkItem(id)
    \/ Finish
    \/ ReadBack

SpecDispatch == InitDispatch /\ [][NextDispatch]_vars

(* ============================== claims ================================ *)

(* ---- vocabulary of the claims ---- *)

\* The 8 offsets (dx, dy) of {-1,0,1}^2 without (0,0).
Offsets == { d \in {-1, 0, 1} \X {-1, 0, 1} : d # <<0, 0>> }
\* Number of offsets whose toroidally wrapped neighbour of (x, y) is alive.
AliveNeighbours(G, x, y, w, h) ==
    Cardinality({ d \in Offsets :
        G[((y + d[2]) % h) * w + ((x + d[1]) % w)] = 1 })
\* Conway's rule for cell (x, y) of G.
RuleCell(G, x, y, w, h) ==
    LET n == AliveNeighbours(G, x, y, w, h)
    IN  IF \/ G[y * w + x] = 1 /\ n \in {2, 3}
           \/ G[y * w + x] = 0 /\ n = 3
        THEN 1 ELSE 0
ColorOf(cell) == IF cell = 1 THEN ALIVE_COLOR ELSE DEAD_COLOR
ExitCondition == ~is_open \/ "Escape" \in keys
\* The positions of main inside the body of the frame loop or at its test.
RunningPcs ==
    {"loop", "reset", "up", "down", "paint", "kernel", "read", "render",
     "present", "swap"}

(* ---- C1 ---- *)

\* C1: after one dispatch of game_of_life on any grid, every cell (x, y) of
\* the new grid is 1 exactly when the cell was alive with 2 or 3 alive
\* neighbours or dead with exactly 3, and 0 otherwise, the neighbours being
\* the 8 offsets taken modulo width and height.
C1_KernelRule ==
    pc = "read" =>
        \A x \in 0 .. (width - 1), y \in 0 .. (height - 1) :
            buffer_new_grid[y * width + x]
                = RuleCell(buffer_grid, x, y, width, height)

\* Cell (0,0) is born from (1,0), (0,1) and, across the border, (2,2).
C1_Witness ==
    /\ pc = "read"
    /\ width = 3 /\ height = 3
    /\ buffer_grid = GridOf({1, 3, 8}, 3, 3)
    /\ buffer_new_grid[0] = 1

(* ---- C2 ---- *)

\* C2 (as claimed): on the 3x3 torus the grid with the centre row alive
\* becomes the all-dead grid in one application.
C2_BlinkerDies ==
    (/\ pc = "read"
     /\ width = 3 /\ height = 3
     /\ buffer_grid = GridOf({3, 4, 5}, 3, 3))
        => buffer_new_grid = GridOf({}, 3, 3)

\* C2 (amended): on the 3x3 torus the grid with the centre row alive
\* becomes the all-alive grid in one application.
C2_BlinkerFills ==
    (/\ pc = "read"
     /\ width = 3 /\ height = 3
     /\ buffer_grid = GridOf({3, 4, 5}, 3, 3))
        => buffer_new_grid = GridOf(Cells(3, 3), 3, 3)

C2_Witness ==
    /\ pc = "read"
    /\ width = 3 /\ height = 3
    /\ buffer_grid = GridOf({3, 4, 5}, 3, 3)
    /\ buffer_new_grid = GridOf(Cells(3, 3), 3, 3)

(* ---- C3 ---- *)

\* C3: in every reachable state of the frame loop current_fps is within
\* [5, 250], whatever initial value the command line gave.
C3_RateInRange == current_fps \in 5 .. 250

(* ---- C4 ---- *)

\* C4: with Up held the rate becomes min(value + 5, 250), with Down held it
\* becomes max(value - 5, 5), from any starting value.
C4_RateClamp ==
    [][ /\ (pc = "up" /\ "Up" \in keys)
            => current_fps' = Min(current_fps + 5, 250)
        /\ (pc = "down" /\ "Down" \in keys)
            => current_fps' = Max(current_fps - 5, 5) ]_vars

(* ---- C5 ---- *)

\* C5 (as claimed): in a tick where reset is held the grid is reseeded and
\* no rate increase, no rate decrease and no paint takes effect.
C5_ResetOverrides ==
    [][ ResetHeld =>
          /\ pc = "reset" => (grid' \in SeedGrids /\ buffer_grid' = grid')
          /\ pc \in {"up", "down"} => current_fps' = current_fps
          /\ pc = "paint" => buffer_grid' = buffer_grid ]_vars

\* C5 (amended): the four rules are evaluated in the order reset, increase,
\* decrease, paint; in a tick where reset is held the grid is reseeded first
\* and the rules below still take effect in that tick: Up raises the rate,
\* Down lowers it and the paint button sets the cell under the cursor alive
\* in the reseeded grid.
C5_ResetDoesNotOverride ==
    [][ /\ pc' # pc =>
              /\ pc' = "up" => pc = "reset"
              /\ pc' = "down" => pc = "up"
              /\ pc' = "paint" => pc = "down"
        /\ ResetHeld =>
              /\ pc = "reset" => (grid' \in SeedGrids /\ buffer_grid' = grid')
              /\ (pc = "up" /\ "Up" \in keys /\ current_fps + 5 <= UsizeMax)
                    => current_fps' = Min(current_fps + 5, 250)
              /\ (pc = "down" /\ "Down" \in keys /\ current_fps >= 5)
                    => current_fps' = Max(current_fps - 5, 5)
              /\ (pc = "paint" /\ PaintHeld /\ CursorInBounds)
                    => buffer_grid' = [buffer_grid EXCEPT ![CursorIdx] = 1]
      ]_vars

\* Space and Up held in the first tick with input: 60 fps has become 65.
C5_Witness ==
    /\ pc = "down"
    /\ "Space" \in keys /\ "Up" \in keys
    /\ generation = 1
    /\ current_fps = 65

(* ---- C6 ---- *)

C7_FrameOrder ==
    /\ [](pc = "present" =>
            LET computed == game_of_life(buffer_grid, WIDTH, HEIGHT)
            IN  \A i \in Cells(WIDTH, HEIGHT) :
                    frame_buffer[i] = ColorOf(computed[i]))
    /\ [](pc = "loop" /\ generation > 0 =>
            \A i \in Cells(WIDTH, HEIGHT) : shown[i] = ColorOf(buffer_grid[i]))
    /\ [][ /\ pc = "present" => (shown' = frame_buffer /\ pc' = "swap")
           /\ pc' # pc =>
              /\ pc' = "reset" => pc = "loop"
              /\ pc' = "kernel" => pc = "paint"
              /\ pc' = "read" => pc = "kernel"
              /\ pc' = "render" => pc = "read"
              /\ pc' = "present" => pc = "render"
              /\ pc' = "swap" => pc = "present"
              /\ pc' = "loop" => pc = "swap" ]_vars

\* A second tick starts on a presented grid that has alive cells.
C7_Witness ==
    /\ pc = "loop"
    /\ generation = 2
    /\ \E i \in Cells(WIDTH, HEIGHT) :
          buffer_grid[i] = 1 /\ shown[i] = ALIVE_COLOR

(* ---- C8 ---- *)

\* C8: the loop leaves RUNNING only at its test and only when Escape is down
\* or the window is closed, it does leave then, and nothing changes once it
\* has terminated.
C8_TwoStates ==
    [][ /\ (pc = "loop" /\ ExitCondition) => pc' = "terminated"
        /\ (pc \in RunningPcs /\ pc' \notin RunningPcs)
              => (pc = "loop" /\ ExitCondition /\ pc' = "terminated")
        /\ pc = "terminated" => UNCHANGED vars ]_vars

(* ---- C9 ---- *)

\* C9: during a dispatch each work-item step leaves buffer_grid as it was
\* and changes one index of buffer_new_grid, its own; the control thread
\* does not move before every work-item has run; and the buffer read back
\* is, under every interleaving, the rule applied to the grid as it was when
\* the dispatch started.
C9_Dispatch ==
    /\ [](pc \in {"running", "read", "render"} => buffer_grid = grid)
    /\ [](pc \in {"read", "render"} =>
            \A x \in 0 .. (width - 1), y \in 0 .. (height - 1) :
                buffer_new_grid[y * width + x]
                    = RuleCell(grid, x, y, width, height))
    /\ [](pc = "render" => new_grid = buffer_new_grid)
    /\ [][ (pc = "running" /\ pending # {}) =>
              /\ pc' = "running"
              /\ buffer_grid' = buffer_grid
              /\ \E id \in pending :
                    /\ pending' = pending \ {id}
                    /\ \A j \in Cells(width, height) :
                          j # id[2] * width + id[1]
                              => buffer_new_grid'[j] = buffer_new_grid[j]
          ]_vars

\* A 3x3 dispatch on three cells around the origin has filled the new grid.
C9_Witness ==
    /\ pc = "read"
    /\ width = 3 /\ height = 3
    /\ grid = GridOf({0, 1, 3}, 3, 3)
    /\ buffer_new_grid = GridOf(Cells(3, 3), 3, 3)

(* ---- C10 ---- *)

\* C10: after the render step every pixel of frame_buffer is ALIVE_COLOR if
\* the cell of the new grid is alive and DEAD_COLOR otherwise, whatever the
\* frame held before, and rendering the same grid again changes nothing.
C10_Render ==
    pc = "present" =>
        /\ DOMAIN frame_buffer = Cells(WIDTH, HEIGHT)
        /\ \A i \in Cells(WIDTH, HEIGHT) :
              frame_buffer[i] = ColorOf(new_grid[i])
        /\ RenderFrame(frame_buffer, new_grid) = frame_buffer

\* A pixel that was alive in the frame shown before is now drawn dead.
C10_Witness ==
    /\ pc = "present"
    /\ shown # NoGrid
    /\ \E i \in Cells(WIDTH, HEIGHT) :
          shown[i] = ALIVE_COLOR /\ frame_buffer[i] = DEAD_COLOR

====
